---------------------------- MODULE Spec2Model ----------------------------
(***************************************************************************)
(* A model of the dormitory-meal scraper (src/scraping): the PDF table     *)
(* pipeline of extractPDF.go (extractTables, filter, describe,             *)
(* saveCSVFiles, normalize) and DownloadFile of main.go.                   *)
(*                                                                         *)
(* Three specifications share the module:                                  *)
(*   Spec          - extractPDF over a batch of documents;                 *)
(*   SpecNormalize - normalize applied once and twice to a text;           *)
(*   SpecDownload  - successive calls of DownloadFile.                     *)
(*                                                                         *)
(* Representation of strings.  A text is a sequence of characters, each    *)
(* named by a string ("SP" is U+0020, "LS" is U+2028, ...).  A file path   *)
(* is the sequence of its "/"-separated segments, and a segment is the     *)
(* sequence of its "."-separated pieces, so that strings.Split,            *)
(* filepath.Base and filepath.Ext are operations on sequences.             *)
(***************************************************************************)
EXTENDS Integers, Sequences, FiniteSets, TLC

VARIABLES
    \* ---- extractPDF (Spec) ----
    opts,        \* Options of the run (FirstPage, LastPage, Width, Height, Verbose)
    pathList,    \* the batch: the sorted paths patternsToPaths returned
    docPages,    \* number of pages of each document of the batch (the input files)
    idx,         \* 1-based position of the range loop over pathList
    pc,          \* position of extractPDF
    firstPage,   \* extractTables' clamped firstPage
    lastPage,    \* extractTables' clamped lastPage
    pageNum,     \* extractTables' loop variable
    heap,        \* the maps made so far for the current document (ref -> map)
    result,      \* extractPDF's variable result: a ref into heap, or NilMap
    err,         \* the error value in hand (NoErr when nil)
    calls,       \* pages for which extractPageTables was called, current document
    logged,      \* the log lines printed by log.Printf, one per document
    csvRoot,     \* saveCSVFiles' argument
    savePos,     \* saveCSVFiles' position: <<index into pageNumbers, table index>>
    fs,          \* the CSV files on disk: path -> contents
    writes,      \* every ioutil.WriteFile that succeeded, in order
    \* ---- normalize (SpecNormalize) ----
    text,        \* the input text
    once,        \* normalize(text)
    twice,       \* normalize(normalize(text))
    npc,         \* "in", "once", "twice"
    \* ---- DownloadFile (SpecDownload) ----
    files,       \* the files on disk: path -> contents
    dirs,        \* the directories that exist
    fetches,     \* the URLs http.Get was called with, in order
    dcalls,      \* one record per finished call of DownloadFile
    \* ---- main's download loop (SpecMain) ----
    links,       \* remotePDFFilePath: the harvested links, in order
    li,          \* 1-based position of the range loop over the links
    mpc,         \* position of main
    first,       \* main's variable first
    localPDFFilePath,  \* main's variable localPDFFilePath
    extractArg   \* the argument of each call of extractPDF, in order

varsPDF == <<opts, pathList, docPages, idx, pc, firstPage, lastPage, pageNum,
             heap, result, err, calls, logged, csvRoot, savePos, fs, writes>>
varsNorm == <<text, once, twice, npc>>
varsDl == <<files, dirs, fetches, dcalls>>
varsMain == <<links, li, mpc, first, localPDFFilePath, extractArg>>
vars == <<varsPDF, varsNorm, varsDl, varsMain>>

-----------------------------------------------------------------------------
(* Bounds of the model.                                                    *)

\* Longest input text of SpecNormalize.
MaxLen == 3
\* Most pages in the whole batch of Spec (summed over its documents).
MaxPages == 3
\* Most calls of DownloadFile in a run of SpecDownload.
MaxCalls == 3
\* The largest number of harvested links.
MaxLinks == 3

-----------------------------------------------------------------------------
(* Generic helpers.                                                        *)

Range(s) == {s[i] : i \in DOMAIN s}

RECURSIVE SeqsUpTo(_, _)
SeqsUpTo(S, n) ==
    IF n = 0 THEN {<<>>}
    ELSE LET shorter == SeqsUpTo(S, n - 1)
         IN  shorter \cup {Append(s, c) : s \in {t \in shorter : Len(t) = n - 1}, c \in S}

RECURSIVE SumSeq(_)
SumSeq(s) == IF s = <<>> THEN 0 ELSE Head(s) + SumSeq(Tail(s))

\* The elements of a finite set of integers in ascending order (sort.Ints).
RECURSIVE SortInts(_)
SortInts(S) ==
    IF S = {} THEN <<>>
    ELSE LET m == CHOOSE x \in S : \A y \in S : x <= y
         IN  <<m>> \o SortInts(S \ {m})

-----------------------------------------------------------------------------
(* TextNormalizer: normalize, reduceSpaces (extractPDF.go 410-422).        *)

\* The alphabet: the ASCII whitespace characters, two non-ASCII Unicode
\* whitespace characters (NBSP = U+00A0, which NFKC maps to U+0020, and
\* LS = U+2028 LINE SEPARATOR, which has no decomposition) and a letter.
Chars == {"SP", "TAB", "LF", "CR", "VT", "FF", "NBSP", "LS", "a"}

\* Unicode White_Space among Chars.
Whitespace == {"SP", "TAB", "LF", "CR", "VT", "FF", "NBSP", "LS"}

\* norm.NFKC.String: U+00A0 has the compatibility decomposition <noBreak>
\* U+0020; every other character of Chars is its own NFKC form.
NFKC(t) == [i \in DOMAIN t |-> IF t[i] = "NBSP" THEN "SP" ELSE t[i]]

\* The class \s of Go's regexp (RE2) syntax: [\t\n\f\r ], ASCII only and
\* without \v.
reSpace == {"TAB", "LF", "FF", "CR", "SP"}

\* reSpace.ReplaceAllString(t, " "): every maximal run of \s becomes one space.
RECURSIVE ReplaceAllSpace(_)
ReplaceAllSpace(t) ==
    IF t = <<>> THEN <<>>
    ELSE IF Head(t) \in reSpace
         THEN IF Len(t) > 1 /\ t[2] \in reSpace
              THEN ReplaceAllSpace(Tail(t))
              ELSE <<"SP">> \o ReplaceAllSpace(Tail(t))
         ELSE <<Head(t)>> \o ReplaceAllSpace(Tail(t))

\* The cutset " \t\n\r\v" of strings.Trim.
TrimCutset == {"SP", "TAB", "LF", "CR", "VT"}

RECURSIVE TrimLeft(_)
TrimLeft(t) ==
    IF t # <<>> /\ Head(t) \in TrimCutset THEN TrimLeft(Tail(t)) ELSE t

RECURSIVE TrimRight(_)
TrimRight(t) ==
    IF t # <<>> /\ t[Len(t)] \in TrimCutset
    THEN TrimRight(SubSeq(t, 1, Len(t) - 1))
    ELSE t

Trim(t) == TrimRight(TrimLeft(t))

reduceSpaces(t) == Trim(ReplaceAllSpace(t))

normalize(t) == reduceSpaces(NFKC(t))

-----------------------------------------------------------------------------
(* TableModel: stringTable, asStringTable, wh, csv.                        *)

\* An extractor.TextTable: its declared width W and height H and its rows
\* of cell texts Cells.  The layout extractor's outputs are drawn from this
\* catalogue.
Cell == <<"a">>
Raw43 == [W |-> 4, H |-> 3,
          Cells |-> << <<Cell, <<"SP", "a">>, <<>>, Cell>>,
                       <<Cell, Cell, <<"a", "LF", "a">>, Cell>>,
                       <<Cell, Cell, Cell, <<"NBSP">> >> >>]
Raw11 == [W |-> 1, H |-> 1, Cells |-> << <<Cell>> >>]
Raw22 == [W |-> 2, H |-> 2, Cells |-> << <<Cell, <<>> >>, <<<<"TAB">>, Cell>> >>]
\* A table with no rows.
Raw00 == [W |-> 0, H |-> 0, Cells |-> <<>>]
\* A table declared 3 wide and 2 high whose second row is missing.
RawShort == [W |-> 3, H |-> 2, Cells |-> << <<Cell, Cell, Cell>> >>]

\* What pageText.Tables() may return for a page.
RawLists == { <<>>, <<Raw43, Raw11>>, <<Raw22, RawShort>>, <<Raw11, Raw00>> }

\* asStringTable panics (index out of range) when Cells has more than H
\* rows or a row of more than W cells.
asStringTablePanics(table) ==
    \/ Len(table.Cells) > table.H
    \/ \E y \in DOMAIN table.Cells : Len(table.Cells[y]) > table.W

\* asStringTable and normalizeTable: H rows are allocated; each row present
\* in Cells is allocated W cells and filled; rows absent from Cells stay
\* nil.  Every cell is normalized.
asStringTable(table) ==
         [y \in 1..table.H |->
            IF y <= Len(table.Cells)
            THEN [x \in 1..table.W |->
                    IF x <= Len(table.Cells[y])
                    THEN normalize(table.Cells[y][x])
                    ELSE normalize(<<>>)]
            ELSE <<>>]

\* extractPageTables' conversion loop over the tables of a page.
asStringTables(tables) == [i \in DOMAIN tables |-> asStringTable(tables[i])]

\* wh: <<width, height>> of table t.
wh(t) == IF Len(t) = 0 THEN <<0, 0>> ELSE <<Len(t[1]), Len(t)>>

\* encoding/csv's fieldNeedsQuotes on the alphabet Chars (no comma, no
\* quote): a field is quoted when it holds a CR or LF or starts with a
\* space character (unicode.IsSpace).
fieldNeedsQuotes(field) ==
    /\ field # <<>>
    /\ \/ \E i \in DOMAIN field : field[i] \in {"CR", "LF"}
       \/ field[1] \in Whitespace

\* csv panics when a row's length differs from the width.
csvPanics(t) == \E y \in DOMAIN t : Len(t[y]) # wh(t)[1]

\* csv: one record per row.
csv(t) ==
         [y \in DOMAIN t |->
            [x \in DOMAIN t[y] |->
                [quoted |-> fieldNeedsQuotes(t[y][x]), field |-> t[y][x]]]]

-----------------------------------------------------------------------------
(* DocumentTableSet: docTables, pageNumbers, numTables, describe, filter.  *)

\* docTables.pageTables is a Go map, a reference: the variable heap holds
\* the maps made so far and a docTables value is an index into it.  NilMap
\* is the nil map of the zero value docTables{}.
NilMap == 0
EmptyMap == [p \in {} |-> <<>>]
PageTables(h, r) == IF r = NilMap THEN EmptyMap ELSE h[r]

pageNumbers(m) == SortInts(DOMAIN m)

numTables(m) == SumSeq([k \in 1..Len(pageNumbers(m)) |-> Len(m[pageNumbers(m)[k]])])

RECURSIVE Concat(_)
Concat(ss) == IF ss = <<>> THEN <<>> ELSE Head(ss) \o Concat(Tail(ss))

\* The rows printed at level 4 for one table.
describeRows(table) ==
    [y \in DOMAIN table |->
        <<"row", [x \in DOMAIN table[y] |->
                    IF Len(table[y][x]) > 0 THEN <<"q", table[y][x]>> ELSE <<>>]>>]

\* The lines printed for one table of a page at levels 3 and 4.
describeTable(table, i, level) ==
    <<<<"table", i, wh(table)[1], wh(table)[2]>>>>
    \o (IF level <= 3 \/ Len(table) = 0 THEN <<>> ELSE describeRows(table))

\* A form of describePage that prints a line for a page without tables too.
describePageAll(m, pageNum_, level) ==
    <<<<"page", pageNum_, Len(m[pageNum_])>>>>
    \o (IF level <= 2 THEN <<>>
        ELSE Concat([i \in DOMAIN m[pageNum_] |->
                       describeTable(m[pageNum_][i], i, level)]))

\* The lines printed for one page at levels 2 to 4; a page without tables
\* prints nothing.
describePage(m, pageNum_, level) ==
    IF Len(m[pageNum_]) = 0 THEN <<>>
    ELSE <<<<"page", pageNum_, Len(m[pageNum_])>>>>
         \o (IF level <= 2 THEN <<>>
             ELSE Concat([i \in DOMAIN m[pageNum_] |->
                            describeTable(m[pageNum_][i], i, level)]))

\* describe: the lines of the summary, each ended by a newline.
\*   <<"blank">>            the single newline of level 0 or of a set without tables
\*   <<"pages", P, T>>      "%d pages %d tables"
\*   <<"page", p, n>>       "   page %d: %d tables"
\*   <<"table", i, w, h>>   "      table %d: %d x %d"
\*   <<"row", cells>>       "        [...]"
describe(m, level) ==
    IF level = 0 \/ numTables(m) = 0 THEN <<<<"blank">>>>
    ELSE <<<<"pages", Len(pageNumbers(m)), numTables(m)>>>>
         \o (IF level <= 1 THEN <<>>
             ELSE Concat([k \in 1..Len(pageNumbers(m)) |->
                            describePage(m, pageNumbers(m)[k], level)]))

\* The condition of filter's inner loop; table[0] is read first.
passes(table, width, height) == Len(table[1]) >= width /\ Len(table) >= height

\* filter panics (index out of range) when it reads row 0 of a table
\* without rows; every table of every page is visited.
filterPanics(m) == \E p \in DOMAIN m : \E i \in DOMAIN m[p] : Len(m[p][i]) = 0

\* The map filter builds: the order in which the Go map is ranged over does
\* not show in it.
filter(m, width, height) ==
    LET kept == [p \in DOMAIN m |->
                    SelectSeq(m[p], LAMBDA t : passes(t, width, height))]
    IN  [p \in {q \in DOMAIN m : Len(kept[q]) > 0} |-> kept[p]]

\* A form of filter that drops the failing tables from r's own map.
filterInPlace(h, r, width, height) ==
    [heap |-> [h EXCEPT ![r] = filter(h[r], width, height)], ref |-> r]

\* filter on the heap: the filtered map is a new map (make); r's map is
\* only read.
filterNew(h, r, width, height) ==
    [heap |-> Append(h, filter(PageTables(h, r), width, height)),
     ref |-> Len(h) + 1]

-----------------------------------------------------------------------------
(* PathPlanner: extractDirectory, changeDirExt, the CSV path.              *)

\* extractDirectory panics (index out of range) when depth is not an index
\* of the path's segments; depth -1 names the last segment.
extractDirectoryPanics(filepath, depth) == depth # -1 /\ depth + 1 > Len(filepath)

\* extractDirectory: the text before the first "." of segment depth.
extractDirectory(filepath, depth) ==
    IF depth = -1 THEN filepath[Len(filepath)][1] ELSE filepath[depth + 1][1]

\* changeDirExt(dirName, filename, "", ""): the base name of filename
\* without its extension (the text after its last "."), in dirName.
changeDirExt(dirName, filename) ==
    LET base == filename[Len(filename)]
    IN  [dir |-> dirName,
         base |-> IF Len(base) >= 2 THEN SubSeq(base, 1, Len(base) - 1) ELSE base]

\* fmt.Sprintf("%s.page%d.table%d.csv", csvRoot, pageNum, i+1), i being the
\* 1-based index of the model.  The text is determined by, and determines,
\* the directory, the base name, the page and the table number.
csvPathOf(root, pageNum_, i) ==
    [dir |-> root.dir, base |-> root.base, page |-> pageNum_, table |-> i]

\* A form of SaveList that visits the pages in descending order.
SaveListDescending(m) ==
    Concat([k \in 1..Len(pageNumbers(m)) |->
              [i \in DOMAIN m[pageNumbers(m)[Len(pageNumbers(m)) + 1 - k]] |->
                 <<pageNumbers(m)[Len(pageNumbers(m)) + 1 - k], i>>]])

\* The tables saveCSVFiles visits, in its order: <<page, index>> with the
\* pages ascending (pageNumbers) and the 1-based index within the page.
SaveList(m) ==
    Concat([k \in 1..Len(pageNumbers(m)) |->
              [i \in DOMAIN m[pageNumbers(m)[k]] |-> <<pageNumbers(m)[k], i>>]])

-----------------------------------------------------------------------------
(* ExtractionDriver: extractPDF, extractTables, saveCSVFiles.              *)

Err(kind, site, inPath, page) ==
    [kind |-> kind, site |-> site, inPath |-> inPath, pageNum |-> page]
NoErr == Err("nil", "", <<>>, 0)

\* opts.CSVDir, the default of extractPDF.
CSVDir == "outcsv"

\* The page ranges and thresholds a run is started with; <<-1, 10000>> and
\* <<0, 0>> are extractPDF's defaults.
PageRanges == {<<-1, 10000>>, <<2, 2>>, <<2, 3>>}
Thresholds == {<<0, 0>>, <<2, 2>>, <<1, 3>>}
OptionSets ==
    {[FirstPage |-> r[1], LastPage |-> r[2], Width |-> t[1], Height |-> t[2],
      Verbose |-> v] : r \in PageRanges, t \in Thresholds, v \in {1, 2}}

\* The batches: what patternsToPaths returns, sorted as by sort.Strings.
P04 == << <<"PDF">>, <<"R5">>, <<"04", "pdf">> >>
P05 == << <<"PDF">>, <<"R5">>, <<"05", "pdf">> >>
Pa04 == << <<"PDF">>, <<"R5">>, <<"a">>, <<"04", "pdf">> >>
Pb04 == << <<"PDF">>, <<"R5">>, <<"b">>, <<"04", "pdf">> >>
Pbare == << <<"04", "pdf">> >>
Batches == { <<>>, <<P04>>, <<P04, P05>>, <<Pa04, Pb04>>, <<Pbare>> }

\* The parts of the state a specification does not use.
IdlePDF ==
    /\ opts = [FirstPage |-> -1, LastPage |-> 10000, Width |-> 0, Height |-> 0,
               Verbose |-> 1]
    /\ pathList = <<>> /\ docPages = <<>>
    /\ idx = 1 /\ pc = "idle"
    /\ firstPage = 0 /\ lastPage = 0 /\ pageNum = 0
    /\ heap = <<>> /\ result = NilMap
    /\ err = NoErr
    /\ calls = <<>> /\ logged = <<>>
    /\ csvRoot = [dir |-> <<>>, base |-> <<>>]
    /\ savePos = 0
    /\ fs = [p \in {} |-> <<>>]
    /\ writes = <<>>
IdleNorm == text = <<>> /\ once = <<>> /\ twice = <<>> /\ npc = "idle"
IdleDl == files = [p \in {} |-> <<>>] /\ dirs = {} /\ fetches = <<>> /\ dcalls = <<>>
IdleMain ==
    /\ links = <<>> /\ li = 1 /\ mpc = "idle" /\ first = TRUE
    /\ localPDFFilePath = <<>> /\ extractArg = <<>>

\* A form of InRange that leaves the last page out.
InRangeStrict(page, last) == page < last

\* The condition of extractTables' loop.
InRange(page, last) == page <= last

ClampFirst(page) == IF page < 1 THEN 1 ELSE page
ClampLast(last, numPages) == IF last > numPages THEN numPages ELSE last

Init ==
    /\ opts \in OptionSets
    /\ pathList \in Batches
    /\ docPages \in {f \in [DOMAIN pathList -> 0..MaxPages] : SumSeq(f) <= MaxPages}
    /\ idx = 1
    /\ pc = IF pathList = <<>> THEN "done" ELSE "open"
    /\ firstPage = 0 /\ lastPage = 0 /\ pageNum = 0
    /\ heap = <<>> /\ result = NilMap
    /\ err = NoErr
    /\ calls = <<>>
    /\ logged = <<>>
    /\ csvRoot = [dir |-> <<>>, base |-> <<>>]
    /\ savePos = 0
    /\ fs = [p \in {} |-> <<>>]
    /\ writes = <<>>
    /\ IdleNorm
    /\ IdleDl
    /\ IdleMain

\* extractTables up to its loop: the document is opened and its page count
\* read (either may fail), the range is clamped and the result map made.
OpenDocument ==
    /\ pc = "open"
    /\ \E ok \in BOOLEAN :
         IF ok
         THEN /\ firstPage' = ClampFirst(opts.FirstPage)
              /\ lastPage' = ClampLast(opts.LastPage, docPages[idx])
              /\ pageNum' = ClampFirst(opts.FirstPage)
              /\ heap' = <<EmptyMap>>
              /\ result' = 1
              /\ calls' = <<>>
              /\ pc' = "page"
              /\ err' = NoErr
         ELSE /\ result' = NilMap
              /\ heap' = <<>>
              /\ err' = Err("error", "open", pathList[idx], 0)
              /\ pc' = "extracted"
              /\ UNCHANGED <<firstPage, lastPage, pageNum, calls>>
    /\ UNCHANGED <<opts, pathList, docPages, idx, logged, csvRoot, savePos, fs, writes>>
    /\ UNCHANGED <<varsNorm, varsDl, varsMain>>

\* One turn of extractTables' loop: extractPageTables fails (as it must for
\* a page the document does not have), or panics in asStringTable, or
\* returns the page's tables, which are stored.
ExtractPage ==
    /\ pc = "page"
    /\ InRange(pageNum, lastPage)
    /\ calls' = Append(calls, pageNum)
    /\ \/ /\ result' = NilMap
          /\ err' = Err("error", "page", pathList[idx], pageNum)
          /\ pc' = "extracted"
          /\ UNCHANGED <<heap, pageNum>>
       \/ \E tables \in RawLists :
            /\ pageNum \in 1..docPages[idx]
            /\ IF \E i \in DOMAIN tables : asStringTablePanics(tables[i])
               THEN /\ err' = Err("panic", "asStringTable", pathList[idx], pageNum)
                    /\ pc' = "panic"
                    /\ UNCHANGED <<heap, result, pageNum>>
               ELSE /\ heap' = [heap EXCEPT ![result] =
                                   [p \in DOMAIN heap[result] \cup {pageNum} |->
                                       IF p = pageNum THEN asStringTables(tables)
                                       ELSE heap[result][p]]]
                    /\ pageNum' = pageNum + 1
                    /\ UNCHANGED <<result, err, pc>>
    /\ UNCHANGED <<opts, pathList, docPages, idx, firstPage, lastPage, logged,
                   csvRoot, savePos, fs, writes>>
    /\ UNCHANGED <<varsNorm, varsDl, varsMain>>

\* extractTables returns its result after the last page of the range.
ReturnTables ==
    /\ pc = "page"
    /\ ~InRange(pageNum, lastPage)
    /\ pc' = "extracted"
    /\ UNCHANGED <<opts, pathList, docPages, idx, firstPage, lastPage, pageNum,
                   heap, result, err, calls, logged, csvRoot, savePos, fs, writes>>
    /\ UNCHANGED <<varsNorm, varsDl, varsMain>>

\* A form of FatalOnError that logs and goes on with the next document.
ContinueOnError ==
    /\ pc = "extracted"
    /\ err # NoErr
    /\ idx' = idx + 1
    /\ pc' = IF idx + 1 > Len(pathList) THEN "done" ELSE "open"
    /\ err' = NoErr
    /\ UNCHANGED <<opts, pathList, docPages, firstPage, lastPage, pageNum,
                   heap, result, calls, logged, csvRoot, savePos, fs, writes>>
    /\ UNCHANGED <<varsNorm, varsDl, varsMain>>

\* extractPDF, extractTables having failed: log.Fatalf ends the process.
FatalOnError ==
    /\ pc = "extracted"
    /\ err # NoErr
    /\ pc' = "fatal"
    /\ UNCHANGED <<opts, pathList, docPages, idx, firstPage, lastPage, pageNum,
                   heap, result, err, calls, logged, csvRoot, savePos, fs, writes>>
    /\ UNCHANGED <<varsNorm, varsDl, varsMain>>

\* extractPDF from the filter to the call of saveCSVFiles: the result is
\* filtered (which may panic), the summary is logged (fileSizeMB panics
\* when the file cannot be examined), the CSV root is derived from the path
\* (extractDirectory may panic) and its directory made (makeDir panics when
\* it cannot be).
FilterAndPlan ==
    /\ pc = "extracted"
    /\ err = NoErr
    /\ IF filterPanics(PageTables(heap, result))
       THEN /\ err' = Err("panic", "filter", pathList[idx], 0)
            /\ pc' = "panic"
            /\ UNCHANGED <<heap, result, logged, csvRoot, savePos>>
       ELSE LET f == filterNew(heap, result, opts.Width, opts.Height)
                line == [doc |-> idx, of |-> Len(pathList),
                         numPages |-> Cardinality(DOMAIN PageTables(heap, result)),
                         inPath |-> pathList[idx],
                         summary |-> describe(f.heap[f.ref], opts.Verbose)]
            IN  /\ heap' = f.heap
                /\ result' = f.ref
                /\ \/ /\ err' = Err("panic", "fileSizeMB", pathList[idx], 0)
                      /\ pc' = "panic"
                      /\ UNCHANGED <<logged, csvRoot, savePos>>
                   \/ /\ logged' = Append(logged, line)
                      /\ IF extractDirectoryPanics(pathList[idx], 1)
                         THEN /\ err' = Err("panic", "extractDirectory", pathList[idx], 0)
                              /\ pc' = "panic"
                              /\ UNCHANGED <<csvRoot, savePos>>
                         ELSE \/ /\ err' = Err("panic", "makeDir", pathList[idx], 0)
                                 /\ pc' = "panic"
                                 /\ UNCHANGED <<csvRoot, savePos>>
                              \/ /\ csvRoot' = changeDirExt(
                                                 <<CSVDir, extractDirectory(pathList[idx], 1),
                                                   extractDirectory(pathList[idx], -1)>>,
                                                 pathList[idx])
                                 /\ savePos' = 1
                                 /\ pc' = "save"
                                 /\ err' = NoErr
    /\ UNCHANGED <<opts, pathList, docPages, idx, firstPage, lastPage, pageNum,
                   calls, fs, writes>>
    /\ UNCHANGED <<varsNorm, varsDl, varsMain>>

\* One turn of saveCSVFiles' inner loop: csv() panics on a table that is
\* not rectangular, or ioutil.WriteFile fails (log.Fatalf in extractPDF),
\* having made no file or a file that holds some leading rows of the
\* contents, or the file is written.
SaveTable ==
    /\ pc = "save"
    /\ savePos <= Len(SaveList(heap[result]))
    /\ LET at == SaveList(heap[result])[savePos]
           table == heap[result][at[1]][at[2]]
           csvPath == csvPathOf(csvRoot, at[1], at[2])
       IN  IF csvPanics(table)
           THEN /\ err' = Err("panic", "csv", pathList[idx], at[1])
                /\ pc' = "panic"
                /\ UNCHANGED <<savePos, fs, writes>>
           ELSE \/ /\ err' = Err("error", "write", pathList[idx], at[1])
                   /\ pc' = "fatal"
                   /\ \/ fs' = fs
                      \/ \E n \in 0..Len(csv(table)) :
                           fs' = [q \in DOMAIN fs \cup {csvPath} |->
                                    IF q = csvPath THEN SubSeq(csv(table), 1, n)
                                    ELSE fs[q]]
                   /\ UNCHANGED <<savePos, writes>>
                \/ /\ fs' = [q \in DOMAIN fs \cup {csvPath} |->
                               IF q = csvPath THEN csv(table) ELSE fs[q]]
                   /\ writes' = Append(writes, [doc |-> idx, page |-> at[1],
                                                index |-> at[2], path |-> csvPath])
                   /\ savePos' = savePos + 1
                   /\ UNCHANGED <<err, pc>>
    /\ UNCHANGED <<opts, pathList, docPages, idx, firstPage, lastPage, pageNum,
                   heap, result, calls, logged, csvRoot>>
    /\ UNCHANGED <<varsNorm, varsDl, varsMain>>

\* saveCSVFiles returns nil and the range loop of extractPDF goes on to the
\* next path, or extractPDF returns nil.
NextDocument ==
    /\ pc = "save"
    /\ savePos > Len(SaveList(heap[result]))
    /\ idx' = idx + 1
    /\ pc' = IF idx + 1 > Len(pathList) THEN "done" ELSE "open"
    /\ heap' = <<>>
    /\ result' = NilMap
    /\ UNCHANGED <<opts, pathList, docPages, firstPage, lastPage, pageNum,
                   err, calls, logged, csvRoot, savePos, fs, writes>>
    /\ UNCHANGED <<varsNorm, varsDl, varsMain>>

Next ==
    \/ OpenDocument
    \/ ExtractPage
    \/ ReturnTables
    \/ FatalOnError
    \/ FilterAndPlan
    \/ SaveTable
    \/ NextDocument

Spec == Init /\ [][Next]_vars

-----------------------------------------------------------------------------
(* SpecNormalize: normalize applied to a text, and to its own result.      *)

InitNormalize ==
    /\ text \in SeqsUpTo(Chars, MaxLen)
    /\ once = <<>> /\ twice = <<>>
    /\ npc = "in"
    /\ IdlePDF
    /\ IdleDl
    /\ IdleMain

NormalizeOnce ==
    /\ npc = "in"
    /\ once' = normalize(text)
    /\ npc' = "once"
    /\ UNCHANGED <<text, twice, varsPDF, varsDl, varsMain>>

NormalizeAgain ==
    /\ npc = "once"
    /\ twice' = normalize(once)
    /\ npc' = "twice"
    /\ UNCHANGED <<text, once, varsPDF, varsDl, varsMain>>

NextNormalize == NormalizeOnce \/ NormalizeAgain

SpecNormalize == InitNormalize /\ [][NextNormalize]_vars

-----------------------------------------------------------------------------
(* Fetcher: DownloadFile (main.go 74-95).                                  *)

\* The local paths and the URL each is downloaded from (main.go 39, 55).
DlPaths == { <<"PDF", "R5", "04.pdf">>, <<"PDF", "R5", "05.pdf">> }
UrlOf(filepath) == <<"https://www.off.niihama-nct.ac.jp/gakuryo-a/kondate/">>
                   \o Tail(filepath)
Parent(filepath) == SubSeq(filepath, 1, Len(filepath) - 1)

\* File contents: what was on disk before the run, the whole body of a
\* URL, or the part of a body written before io.Copy failed.
Content(kind, url) == [kind |-> kind, url |-> url]
Old == Content("old", <<>>)
NoFile == Content("none", <<>>)
ContentAt(fl, filepath) == IF filepath \in DOMAIN fl THEN fl[filepath] ELSE NoFile

\* os.Stat(filepath): nil for a file or a directory that exists; ENOTDIR
\* when a leading part of the path is a regular file; ENOENT otherwise.
Stat(fl, filepath) ==
    IF filepath \in DOMAIN fl \/ filepath \in dirs THEN "nil"
    ELSE IF \E n \in 1..(Len(filepath) - 1) : SubSeq(filepath, 1, n) \in DOMAIN fl
         THEN "ENOTDIR"
         ELSE "ENOENT"

\* os.IsNotExist
IsNotExist(e) == e = "ENOENT"

\* The record of a call: its arguments, what os.Stat answered, the file
\* before and after, the number of http.Get calls it made and its return
\* value ("nil" or "error").
CallRecord(filepath, url, before, after, nfetch, ret) ==
    [filepath |-> filepath, url |-> url, stat |-> Stat(files, filepath),
     before |-> before, after |-> after, nfetch |-> nfetch, ret |-> ret]

\* The earlier DownloadFile, without the check for an existing file
\* (extractPDF.go 603-619).
DownloadFileAlways(filepath, url) ==
    /\ fetches' = Append(fetches, url)
    /\ \/ /\ dcalls' = Append(dcalls, CallRecord(filepath, url, ContentAt(files, filepath),
                                                 ContentAt(files, filepath), 1, "error"))
          /\ UNCHANGED files
       \/ /\ Parent(filepath) \in dirs
          /\ \E c \in {Content("body", url), Content("partial", url)} :
               /\ files' = [q \in DOMAIN files \cup {filepath} |->
                               IF q = filepath THEN c ELSE files[q]]
               /\ dcalls' = Append(dcalls,
                                CallRecord(filepath, url, ContentAt(files, filepath), c, 1,
                                           IF c.kind = "body" THEN "nil" ELSE "error"))
    /\ UNCHANGED dirs

\* DownloadFile: nothing is done when os.Stat answers anything but "does
\* not exist".  Otherwise the URL is fetched once; http.Get may fail;
\* os.Create fails when the directory of filepath does not exist; io.Copy
\* may fail after the file was created, leaving a part of the body.
DownloadFile(filepath, url) ==
    IF ~IsNotExist(Stat(files, filepath))
    THEN /\ dcalls' = Append(dcalls, CallRecord(filepath, url, ContentAt(files, filepath),
                                                ContentAt(files, filepath), 0, "nil"))
         /\ UNCHANGED <<files, dirs, fetches>>
    ELSE /\ fetches' = Append(fetches, url)
         /\ \/ /\ dcalls' = Append(dcalls, CallRecord(filepath, url, NoFile, NoFile, 1, "error"))
               /\ UNCHANGED files
            \/ /\ Parent(filepath) \notin dirs
               /\ dcalls' = Append(dcalls, CallRecord(filepath, url, NoFile, NoFile, 1, "error"))
               /\ UNCHANGED files
            \/ /\ Parent(filepath) \in dirs
               /\ \E c \in {Content("body", url), Content("partial", url)} :
                    /\ files' = [q \in DOMAIN files \cup {filepath} |->
                                    IF q = filepath THEN c ELSE files[q]]
                    /\ dcalls' = Append(dcalls,
                                     CallRecord(filepath, url, NoFile, c, 1,
                                                IF c.kind = "body" THEN "nil" ELSE "error"))
         /\ UNCHANGED dirs

\* The disk before the run: nothing, or the directory PDF/R5 with or
\* without an earlier download in it, or a regular file named PDF/R5.
InitDownload ==
    /\ \/ dirs = {} /\ files = [p \in {} |-> Old]
       \/ dirs = {<<"PDF">>, <<"PDF", "R5">>} /\ files = [p \in {} |-> Old]
       \/ dirs = {<<"PDF">>, <<"PDF", "R5">>} /\ files = [p \in {<<"PDF", "R5", "04.pdf">>} |-> Old]
       \/ dirs = {<<"PDF">>} /\ files = [p \in {<<"PDF", "R5">>} |-> Old]
    /\ fetches = <<>>
    /\ dcalls = <<>>
    /\ IdlePDF
    /\ IdleNorm
    /\ IdleMain

\* A caller calls DownloadFile, as main does at lines 24 and 55.
CallDownloadFile ==
    /\ Len(dcalls) < MaxCalls
    /\ \E filepath \in DlPaths : DownloadFile(filepath, UrlOf(filepath))
    /\ UNCHANGED <<varsPDF, varsNorm, varsMain>>

NextDownload == CallDownloadFile

SpecDownload == InitDownload /\ [][NextDownload]_vars

-----------------------------------------------------------------------------
(* SpecMain: main from its download loop to the call of extractPDF.  A     *)
(* link is the sequence of the parts strings.Split(link, "/") gives.       *)

\* The links getPDFFilePath may harvest: relative paths in two
\* directories, a bare file name, and an absolute URL.
L04 == <<"R5", "04.pdf">>
L05 == <<"R5", "05.pdf">>
L06 == <<"R6", "06.pdf">>
Lbare == <<"07.pdf">>
Labs == <<"https:", "", "example.jp", "R5", "08.pdf">>
LinkSet == {L04, L05, L06, Lbare, Labs}

\* main's url and PDFRoot.
KondateUrl == <<"https://www.off.niihama-nct.ac.jp/gakuryo-a/kondate/">>
PDFRoot == <<"PDF">>

\* The parts that end in a colon.
ColonEnded == {"https:", "http:"}

\* makeFullPath: a path that contains "://" is a URL and is not resolved;
\* any other path is appended to url.
makeFullPath(url, path) ==
    LET isUrl == \E i \in 1..(Len(path) - 1) :
                    path[i] \in ColonEnded /\ path[i + 1] = ""
    IN  IF isUrl THEN [url |-> <<>>, isUrl |-> TRUE]
        ELSE [url |-> url \o path, isUrl |-> FALSE]

\* getDirecotry: the first part of the path (strings.Split gives at least
\* one part, so the error is never returned).
getDirecotry(filePath) == filePath[1]

\* os.MkdirAll fails when a leading part of the name is a regular file.
MkdirAllFails(direcoryName) ==
    \E n \in 1..Len(direcoryName) : SubSeq(direcoryName, 1, n) \in DOMAIN files

\* The directories after os.MkdirAll made direcoryName and its parents.
MkdirAll(direcoryName) ==
    dirs \cup {SubSeq(direcoryName, 1, n) : n \in 1..Len(direcoryName)}

\* The disks main may start on: nothing; the directories of some or all
\* links, with or without an earlier download; a regular file named PDF/R5.
Disks ==
    { [dirs |-> {}, files |-> {}],
      [dirs |-> {PDFRoot, PDFRoot \o <<"R5">>}, files |-> {}],
      [dirs |-> {PDFRoot, PDFRoot \o <<"R5">>}, files |-> {PDFRoot \o L04}],
      [dirs |-> {PDFRoot, PDFRoot \o <<"R5">>, PDFRoot \o <<"R6">>}, files |-> {}],
      [dirs |-> {PDFRoot}, files |-> {PDFRoot \o <<"R5">>}] }

InitMain ==
    /\ links \in SeqsUpTo(LinkSet, MaxLinks)
    /\ li = 1
    /\ mpc = "loop"
    /\ first = TRUE
    /\ localPDFFilePath = <<>>
    /\ extractArg = <<>>
    /\ \E d \in Disks : dirs = d.dirs /\ files = [q \in d.files |-> Old]
    /\ fetches = <<>>
    /\ dcalls = <<>>
    /\ IdlePDF
    /\ IdleNorm

\* A turn of the loop up to the call of DownloadFile (lines 39-54): a URL
\* is skipped; for a relative path the local path is appended and, on the
\* first such turn only, the directory is made (log.Fatalln when that
\* fails).
PrepareLink ==
    /\ mpc = "loop"
    /\ li <= Len(links)
    /\ LET remotePDFPath == links[li]
           direcoryName == getDirecotry(remotePDFPath)
       IN  IF makeFullPath(KondateUrl, remotePDFPath).isUrl
           THEN /\ li' = li + 1
                /\ UNCHANGED <<mpc, first, localPDFFilePath, dirs>>
           ELSE /\ localPDFFilePath' = Append(localPDFFilePath, PDFRoot \o remotePDFPath)
                /\ IF first
                   THEN /\ first' = FALSE
                        /\ \/ /\ mpc' = "fatal"
                              /\ UNCHANGED dirs
                           \/ /\ ~MkdirAllFails(PDFRoot \o <<direcoryName>>)
                              /\ dirs' = MkdirAll(PDFRoot \o <<direcoryName>>)
                              /\ mpc' = "download"
                   ELSE /\ mpc' = "download"
                        /\ UNCHANGED <<first, dirs>>
                /\ UNCHANGED li
    /\ UNCHANGED <<links, extractArg, files, fetches, dcalls>>
    /\ UNCHANGED <<varsPDF, varsNorm>>

\* The rest of the turn (lines 55-58): DownloadFile is called and
\* log.Fatalln ends the process when it returns an error.
DownloadLink ==
    /\ mpc = "download"
    /\ DownloadFile(PDFRoot \o links[li], makeFullPath(KondateUrl, links[li]).url)
    /\ IF dcalls'[Len(dcalls')].ret = "nil"
       THEN /\ li' = li + 1
            /\ mpc' = "loop"
       ELSE /\ mpc' = "fatal"
            /\ UNCHANGED li
    /\ UNCHANGED <<links, first, localPDFFilePath, extractArg>>
    /\ UNCHANGED <<varsPDF, varsNorm>>

\* After the loop (lines 63-70): log.Fatalln on an empty list, else
\* extractPDF is called with the list.
CallExtractPDF ==
    /\ mpc = "loop"
    /\ li > Len(links)
    /\ IF Len(localPDFFilePath) = 0
       THEN /\ mpc' = "fatal"
            /\ UNCHANGED extractArg
       ELSE /\ mpc' = "extractPDF"
            /\ extractArg' = Append(extractArg, localPDFFilePath)
    /\ UNCHANGED <<links, li, first, localPDFFilePath>>
    /\ UNCHANGED <<varsPDF, varsNorm, varsDl>>

NextMain ==
    \/ PrepareLink
    \/ DownloadLink
    \/ CallExtractPDF

SpecMain == InitMain /\ [][NextMain]_vars

-----------------------------------------------------------------------------
(* Properties of Spec.                                                     *)

Max(a, b) == IF a >= b THEN a ELSE b
Min(a, b) == IF a <= b THEN a ELSE b

\* The tables of page p of m that are at least w wide and h high, by their
\* dimensions, in their order.
Passing(m, p, w, h) == SelectSeq(m[p], LAMBDA t : wh(t)[1] >= w /\ wh(t)[2] >= h)

HasZeroRow(m) == \E p \in DOMAIN m : \E i \in DOMAIN m[p] : Len(m[p][i]) = 0

\* The set filter was called on and the set it returned, once it returned.
Filtered == pc = "save" /\ Len(heap) = 2 /\ result = 2

\* C1: for every set S and thresholds (w, h), S.filter(w, h) yields a set
\* (it does not fault) that maps each page p to exactly the tables of p
\* that are at least w wide and h high, in their order, and holds p if and
\* only if there is such a table.
C1_FilterExact ==
    /\ ~(pc = "panic" /\ err.site = "filter")
    /\ Filtered =>
         /\ DOMAIN heap[2] = {p \in DOMAIN heap[1] :
                                Passing(heap[1], p, opts.Width, opts.Height) # <<>>}
         /\ \A p \in DOMAIN heap[2] :
              heap[2][p] = Passing(heap[1], p, opts.Width, opts.Height)

\* C2: filter leaves its receiver as it was: the map of the receiver, and
\* so describe at every level, is the same after the call as before; the
\* set returned is a map of its own, not the receiver's, and nothing done
\* with it afterwards (describe, saveCSVFiles) changes the receiver.
C2_FilterKeepsReceiver ==
    [][/\ (pc = "extracted" /\ err = NoErr) =>
            /\ result \in DOMAIN heap
            /\ result \in DOMAIN heap'
            /\ heap'[result] = heap[result]
            /\ \A level \in 0..4 :
                 describe(heap'[result], level) = describe(heap[result], level)
            /\ err'.site # "filter" =>
                 /\ result' # result
                 /\ result' \notin DOMAIN heap
                 /\ result' \in DOMAIN heap'
       /\ (Filtered /\ pc' \in {"save", "fatal", "panic"}) => heap'[1] = heap[1]
      ]_vars

\* A call of filter that dropped a table has returned.
C2_Witness == Filtered /\ heap[2] # heap[1] /\ numTables(heap[2]) > 0

\* C3: on a set that holds a table without rows, filter(w, h) with w >= 0
\* and h >= 0 completes without a fault, and when w > 0 or h > 0 the table
\* without rows is not in the result.
C3_ZeroRowSafe ==
    /\ (pc = "panic" /\ err.site = "filter" /\ opts.Width >= 0 /\ opts.Height >= 0)
          => ~HasZeroRow(heap[result])
    /\ (Filtered /\ (opts.Width > 0 \/ opts.Height > 0)) => ~HasZeroRow(heap[2])

\* C4: when extractTables succeeds, extractPageTables was called exactly
\* once for each page of [max(firstPage, 1), min(lastPage, numPages)], in
\* increasing order, and the keys of the set returned are those pages (a
\* page without tables is stored with an empty list; a range outside the
\* document gives the empty set).
C4_PagesExtracted ==
    (pc = "extracted" /\ err = NoErr) =>
        LET lo == Max(opts.FirstPage, 1)
            hi == Min(opts.LastPage, docPages[idx])
        IN  /\ calls = [k \in 1..Max(hi - lo + 1, 0) |-> lo + k - 1]
            /\ result # NilMap
            /\ DOMAIN heap[result] = lo..hi

\* extractTables has succeeded on a range that was floored and capped, with
\* two pages or more, one of them without tables.
C4_Witness ==
    /\ pc = "extracted" /\ err = NoErr
    /\ opts.FirstPage < 1 /\ opts.LastPage > docPages[idx]
    /\ Len(calls) >= 2
    /\ \E p \in DOMAIN heap[result] : heap[result][p] = <<>>
    /\ \E p \in DOMAIN heap[result] : heap[result][p] # <<>>

\* C5: when extractPageTables fails on a page, extractTables stops at that
\* page and returns the empty set and an error naming the document and the
\* page; extractPDF then ends the process: it writes no CSV file for that
\* document, goes on to no later document, and leaves the files of the
\* earlier documents as they are.
C5_PageFailureAborts ==
    [][/\ (pc = "page" /\ pc' = "extracted" /\ err' # NoErr) =>
            /\ err' = Err("error", "page", pathList[idx], pageNum)
            /\ calls' = Append(calls, pageNum)
            /\ PageTables(heap', result') = EmptyMap
            /\ fs' = fs
       /\ (pc = "extracted" /\ err.site = "page") =>
            /\ pc' = "fatal"
            /\ idx' = idx
            /\ fs' = fs /\ writes' = writes
            /\ \A k \in DOMAIN writes' : writes'[k].doc < idx
       /\ pc # "fatal"
      ]_vars

\* The process has ended on a page failure in the second document, at its
\* second page, after CSV files of the first document were written.
C5_Witness ==
    /\ pc = "fatal" /\ err.site = "page"
    /\ idx = 2 /\ err.pageNum = 2
    /\ writes # <<>>
    /\ \A k \in DOMAIN writes : writes[k].path \in DOMAIN fs

\* The CSV paths of the tables saveCSVFiles is to write for the current
\* document.
DocPaths == {csvPathOf(csvRoot, e[1], e[2]) : e \in Range(SaveList(heap[result]))}

SaveFailed == pc \in {"fatal", "panic"} /\ err.site \in {"write", "csv"}

\* C6 as stated: when writing a document's tables fails at some table, none
\* of that document's CSV files exist afterwards unless all of them do.
C6_NoPartialOutput ==
    SaveFailed => \/ DocPaths \cap DOMAIN fs = {}
                  \/ DocPaths \subseteq DOMAIN fs

\* The retained tables of m in the order of ascending page, then index.
RECURSIVE InOrder(_, _)
InOrder(m, pages) ==
    IF pages = {} THEN <<>>
    ELSE LET p == CHOOSE x \in pages : \A y \in pages : x <= y
         IN  [i \in DOMAIN m[p] |-> <<p, i>>] \o InOrder(m, pages \ {p})

\* The writes of document d, in the order they were made.
WritesOf(d) == SelectSeq(writes, LAMBDA w : w.doc = d)

\* A file at path p was written for an earlier document of the batch.
WrittenBefore(p) == \E k \in DOMAIN writes : writes[k].doc < idx /\ writes[k].path = p

\* C6 amended: when writing a document's tables fails at some table, the
\* run stops there: exactly the tables before the failing one, in the order
\* of ascending page and then table index, have been written, each to its
\* file in full; the failing table's file is left as it was or holds some
\* leading rows of its contents; no later table's file has been written.
C6_PrefixWritten ==
    SaveFailed =>
        LET order == InOrder(heap[result], DOMAIN heap[result])
            pathAt(k) == csvPathOf(csvRoot, order[k][1], order[k][2])
            tableAt(k) == heap[result][order[k][1]][order[k][2]]
        IN  /\ savePos \in 1..Len(order)
            /\ err.pageNum = order[savePos][1]
            /\ WritesOf(idx) =
                 [k \in 1..(savePos - 1) |->
                    [doc |-> idx, page |-> order[k][1], index |-> order[k][2],
                     path |-> pathAt(k)]]
            /\ \A k \in 1..(savePos - 1) : fs[pathAt(k)] = csv(tableAt(k))
            /\ (pathAt(savePos) \in DOMAIN fs /\ ~WrittenBefore(pathAt(savePos))) =>
                 /\ err.site = "write"
                 /\ \E n \in 0..Len(csv(tableAt(savePos))) :
                      fs[pathAt(savePos)] = SubSeq(csv(tableAt(savePos)), 1, n)
            /\ \A k \in (savePos + 1)..Len(order) :
                 pathAt(k) \in DOMAIN fs => WrittenBefore(pathAt(k))

\* Writing failed at a table of the second retained page, after a file of
\* the document had been written.
C6_Witness ==
    /\ SaveFailed
    /\ savePos >= 2
    /\ Cardinality(DOMAIN heap[result]) >= 2
    /\ SaveList(heap[result])[savePos][1] # SaveList(heap[result])[1][1]
    /\ DocPaths \cap DOMAIN fs # {}

\* C7: after a run that ends without error there is exactly one CSV file
\* per retained table: table i of page N of a document went to
\* <csvDir>/<year>/<month>/<base>.page<N>.table<i+1>.csv, pages ascending,
\* and no two retained tables went to the same path.
C7_OneFilePerTable ==
    pc = "done" =>
        /\ \A k \in DOMAIN writes :
             LET inPath == pathList[writes[k].doc]
             IN  writes[k].path =
                    [dir |-> <<CSVDir, inPath[2][1], inPath[Len(inPath)][1]>>,
                     base |-> IF Len(inPath[Len(inPath)]) >= 2
                              THEN SubSeq(inPath[Len(inPath)], 1, Len(inPath[Len(inPath)]) - 1)
                              ELSE inPath[Len(inPath)],
                     page |-> writes[k].page, table |-> writes[k].index]
        /\ \A j, k \in DOMAIN writes :
             (j < k /\ writes[j].doc = writes[k].doc) => writes[j].page <= writes[k].page
        /\ \A j, k \in DOMAIN writes : j # k => writes[j].path # writes[k].path
        /\ Cardinality(DOMAIN fs) = Len(writes)

\* The page lines describe(2) is to print for m: one for each page with a
\* table, ascending.
RECURSIVE PageLines(_, _)
PageLines(m, pages) ==
    IF pages = {} THEN <<>>
    ELSE LET p == CHOOSE x \in pages : \A y \in pages : x <= y
         IN  (IF Len(m[p]) >= 1 THEN <<<<"page", p, Len(m[p])>>>> ELSE <<>>)
             \o PageLines(m, pages \ {p})

\* The number of tables of m, by pages.
RECURSIVE TableCount(_, _)
TableCount(m, pages) ==
    IF pages = {} THEN 0
    ELSE LET p == CHOOSE x \in pages : TRUE
         IN  Len(m[p]) + TableCount(m, pages \ {p})

\* The sets of the current document: the one extractTables returned and,
\* once filter has returned, the filtered one.
Sets == IF pc = "page" THEN {} ELSE DOMAIN heap

\* C10 as stated: for every set with a table, describe(2) is the header
\* "<P> pages <T> tables" and then one line per page with a table,
\* ascending, T being the number of tables and P the number of page lines.
C10_HeaderCountsLines ==
    \A r \in Sets :
        TableCount(heap[r], DOMAIN heap[r]) >= 1 =>
            LET d == describe(heap[r], 2)
            IN  /\ Tail(d) = PageLines(heap[r], DOMAIN heap[r])
                /\ d[1] = <<"pages", Len(d) - 1, TableCount(heap[r], DOMAIN heap[r])>>

\* C10 amended: for every set with a table, describe(2) is the header
\* "<P> pages <T> tables" and then one line "page <p>: <n> tables" per page
\* with a table, ascending; T is the number of tables, the sum of the n;
\* P is the number of pages the set stores, those stored with an empty
\* list included, so P is the number of page lines when no page is stored
\* empty, as in every set filter returns.
C10_HeaderCountsKeys ==
    /\ \A r \in Sets :
         TableCount(heap[r], DOMAIN heap[r]) >= 1 =>
            LET d == describe(heap[r], 2)
                lines == Tail(d)
            IN  /\ lines = PageLines(heap[r], DOMAIN heap[r])
                /\ \A k \in 1..(Len(lines) - 1) : lines[k][2] < lines[k + 1][2]
                /\ SumSeq([k \in DOMAIN lines |-> lines[k][3]])
                     = TableCount(heap[r], DOMAIN heap[r])
                /\ d[1] = <<"pages", Cardinality(DOMAIN heap[r]),
                            TableCount(heap[r], DOMAIN heap[r])>>
                /\ (\A p \in DOMAIN heap[r] : heap[r][p] # <<>>) => d[1][2] = Len(lines)
    /\ (Filtered /\ numTables(heap[2]) >= 1) =>
            describe(heap[2], 2)[1][2] = Len(describe(heap[2], 2)) - 1

\* The scenario: a document of 3 pages, page 2 with a 4 x 3 and a 1 x 1
\* table, filtered with (2, 2).
C10_Witness ==
    /\ Filtered
    /\ opts.Width = 2 /\ opts.Height = 2
    /\ DOMAIN heap[1] = {1, 2, 3}
    /\ heap[1][1] = <<>> /\ heap[1][3] = <<>>
    /\ Len(heap[1][2]) = 2
    /\ wh(heap[1][2][1]) = <<4, 3>> /\ wh(heap[1][2][2]) = <<1, 1>>
    /\ describe(heap[1], 2) = << <<"pages", 3, 2>>, <<"page", 2, 2>> >>
    /\ describe(heap[2], 2) = << <<"pages", 1, 1>>, <<"page", 2, 1>> >>

-----------------------------------------------------------------------------
(* Properties of SpecNormalize.                                            *)

\* C9: for every text x, normalize(normalize(x)) = normalize(x),
\* normalize(x) has no two consecutive space characters, and normalize(x)
\* neither starts nor ends with a whitespace character.
C9_Normalized ==
    npc = "twice" =>
        /\ twice = once
        /\ \A i \in 1..(Len(once) - 1) : ~(once[i] = "SP" /\ once[i + 1] = "SP")
        /\ once # <<>> => (once[1] \notin Whitespace /\ once[Len(once)] \notin Whitespace)

-----------------------------------------------------------------------------
(* Properties of SpecDownload.                                             *)

SameArgs(c, d) == c.filepath = d.filepath /\ c.url = d.url

\* C8 as stated: a call with a file at the path fetches nothing, leaves the
\* file as it is and returns success; a call with no file at the path
\* fetches the URL once and creates the file; so two calls in a row with
\* the same arguments fetch at most once.
C8_FetchAtMostOnce ==
    \A i \in DOMAIN dcalls :
        /\ dcalls[i].before # NoFile =>
              /\ dcalls[i].nfetch = 0
              /\ dcalls[i].after = dcalls[i].before
              /\ dcalls[i].ret = "nil"
        /\ dcalls[i].before = NoFile =>
              /\ dcalls[i].nfetch = 1
              /\ dcalls[i].after # NoFile
        /\ (i > 1 /\ SameArgs(dcalls[i - 1], dcalls[i])) =>
              dcalls[i - 1].nfetch + dcalls[i].nfetch <= 1

\* C8 amended: a call with a file at the path fetches nothing, leaves the
\* file as it is and returns success.  A call for which os.Stat reports
\* that the path does not exist fetches the URL exactly once and creates
\* the file only if the fetch and os.Create succeed: it returns success
\* only with the whole body written, and an error leaves no file or a part
\* of the body.  A call for which os.Stat fails otherwise fetches nothing
\* and returns success without a file.  So of two calls in a row with the
\* same arguments the second fetches nothing when the first left a file at
\* the path, and fetches again when the first failed before creating it.
C8_FetchOncePerMissingFile ==
    /\ Len(fetches) = SumSeq([i \in DOMAIN dcalls |-> dcalls[i].nfetch])
    /\ \A i \in DOMAIN dcalls :
        /\ dcalls[i].before # NoFile =>
              /\ dcalls[i].nfetch = 0
              /\ dcalls[i].after = dcalls[i].before
              /\ dcalls[i].ret = "nil"
        /\ (dcalls[i].before = NoFile /\ dcalls[i].stat = "ENOENT") =>
              /\ dcalls[i].nfetch = 1
              /\ dcalls[i].ret = "nil" => dcalls[i].after = Content("body", dcalls[i].url)
              /\ dcalls[i].ret # "nil" =>
                    dcalls[i].after \in {NoFile, Content("partial", dcalls[i].url)}
        /\ (dcalls[i].before = NoFile /\ dcalls[i].stat # "ENOENT") =>
              /\ dcalls[i].nfetch = 0
              /\ dcalls[i].after = NoFile
              /\ dcalls[i].ret = "nil"
        /\ (i > 1 /\ SameArgs(dcalls[i - 1], dcalls[i])) =>
              /\ dcalls[i].before = dcalls[i - 1].after
              /\ dcalls[i - 1].after # NoFile =>
                    /\ dcalls[i].nfetch = 0
                    /\ dcalls[i - 1].nfetch + dcalls[i].nfetch <= 1
              /\ (dcalls[i - 1].after = NoFile /\ dcalls[i - 1].stat = "ENOENT") =>
                    dcalls[i - 1].nfetch + dcalls[i].nfetch = 2

\* Two calls in a row with the same arguments: the first found no file,
\* fetched and wrote it; the second found it and fetched nothing.
C8_Witness ==
    /\ Len(dcalls) >= 2
    /\ SameArgs(dcalls[1], dcalls[2])
    /\ dcalls[1].before = NoFile /\ dcalls[1].nfetch = 1 /\ dcalls[1].ret = "nil"
    /\ dcalls[2].before = Content("body", dcalls[1].url)
    /\ dcalls[2].nfetch = 0 /\ dcalls[2].ret = "nil"
    /\ Len(fetches) = 1

-----------------------------------------------------------------------------
(* Properties of SpecMain.                                                 *)

\* The local paths of the relative links among the first n harvested
\* links, in harvest order.
RECURSIVE LocalPaths(_)
LocalPaths(n) ==
    IF n = 0 THEN <<>>
    ELSE IF makeFullPath(KondateUrl, links[n]).isUrl THEN LocalPaths(n - 1)
         ELSE Append(LocalPaths(n - 1), PDFRoot \o links[n])

\* C11: whenever main is about to call DownloadFile for a relative link,
\* the directory PDF/<first part of the link> exists; and extractPDF is
\* called only once every relative link's DownloadFile has returned nil,
\* in harvest order, and with exactly the list of their local paths.
C11_DirBeforeDownloadThenExtract ==
    /\ mpc = "download" => (PDFRoot \o <<links[li][1]>>) \in dirs
    /\ extractArg # <<>> =>
         /\ mpc = "extractPDF"
         /\ extractArg = <<LocalPaths(Len(links))>>
         /\ Len(dcalls) = Len(LocalPaths(Len(links)))
         /\ \A k \in DOMAIN dcalls :
              /\ dcalls[k].filepath = LocalPaths(Len(links))[k]
              /\ dcalls[k].ret = "nil"

=============================================================================
